---- MODULE Spec2Model ----
(***************************************************************************)
(* State-machine model of the generation service:                          *)
(*   PipelineOrchestrator  (server/app/services/pipeline.py)               *)
(*   ShapeCache            (server/app/cache/shape_cache.py)               *)
(*   ModelRegistry         (server/app/models/registry.py)                 *)
(*   POST /generate        (server/app/routes/generate.py)                 *)
(* Time is counted in clock ticks.  The event loop is single threaded, so  *)
(* the code between two awaits of a coroutine is one action; every worker  *)
(* thread (_generate_sync) advances one collaborator call at a time.       *)
(***************************************************************************)
EXTENDS Integers, Sequences, FiniteSets, TLC

\* ---------------------------------------------------------------- bounds
NReq == 2                               \* requests issued in one run
MaxTime == 2                            \* last clock tick
generation_timeout_seconds == 1         \* Settings value, in ticks
fallback_timeout_seconds == 0           \* Settings value, in ticks
WindowTicks == 2                        \* the 60 s rate window, in ticks
generation_rate_limit_per_minute == 1   \* Settings value
vram_offload_threshold_gb == 1
MaxTextLen == 4
MaxFaces == 2
MaskPixels == 2
MaxViews == 2
MaxMasks == 2
memory_capacity == 2                    \* ShapeCache(memory_capacity=...)
MaxGets == 3                            \* direct ShapeCache.get calls in one run

Reqs == 1..NReq

\* ------------------------------------------------------------ key, template
ARTICLES == {"a", "an", "the"}

\* Request texts, as the word lists text.lower().strip().split() yields.
Texts == {<<"the", "horse">>, <<"horse">>, <<"cat">>}

IsWord(w) == w \notin ARTICLES

\* ShapeCache.normalize_key: drop the articles; all-article text is kept as is.
normalize_key(text) ==
    LET words == SelectSeq(text, IsWord)
    IN  IF words # << >> THEN words ELSE text

Keys == {normalize_key(t) : t \in Texts}

\* template_matcher.get_template(text).num_parts
num_parts(text) == IF normalize_key(text) = <<"horse">> THEN 6 ELSE 3

\* ------------------------------------------------------------ names
PRIMARY_MODELS == {"sdxl_turbo", "partcrafter"}
FALLBACK_MODELS == {"hunyuan3d_turbo", "grounded_sam2"}

\* What a collaborator call can raise: any exception, the device
\* out-of-memory error, a built-in TimeoutError.
Exc == {"err", "oom", "timeout_err"}
FbExc == {"err", "oom"}

NoObj == 0
NoKey == << >>
NoCall == [fn |-> "none"]
NoLoads == [name \in FALLBACK_MODELS |-> 0]
ObjIds == 1..(2 * NReq)        \* r: response built by r; NReq + r: read from storage by r
NoResp == [cached |-> FALSE, tier |-> "none", names |-> 0]

VARIABLES
    now,        \* clock
    models,     \* ModelRegistry._models (names)
    memory,     \* ShapeCache._memory: key -> object id
    lru,        \* ShapeCache._memory: its keys, least recently used first
    byUse,      \* history: keys of the fast tier by their last get hit or write
    gets,       \* history: completed ShapeCache.get calls
    hist,       \* history: last key evicted from the fast tier; clear_memory ran;
                \* factory runs per lazily loaded model since its last unload
    storage,    \* durable tier: key -> serialized response
    bucket,     \* ShapeCache._bucket is set
    obj,        \* heap of GenerateResponse objects
    stats,      \* ShapeCache hit/miss counters
    genWindow,  \* PipelineMetrics generation timestamps
    reqTotal,   \* PipelineMetrics request count
    scenario,   \* "solo": one request, every collaborator outcome;
                \* "duo": NReq concurrent requests, fewer collaborator outcomes
    wiring,     \* which orchestrator serves generate: "route" or "app_state"
    call,       \* a pure function under examination: its arguments and result
    rq,         \* per request: the generate() coroutine
    wk          \* per request: the worker thread running _generate_sync

vars == <<now, models, memory, lru, byUse, gets, hist, storage, bucket, obj, stats, genWindow, reqTotal, scenario, wiring, call, rq, wk>>

Max(a, b) == IF a >= b THEN a ELSE b

\* An object a previous run of the service left in the durable tier.
StoredBefore == [cached |-> FALSE, tier |-> "partcrafter", names |-> 3]
\* The same, left by a request that the safety net had answered.
StoredMock == [cached |-> FALSE, tier |-> "mock", names |-> 3]

IdleRq ==
    [pc |-> "idle", text |-> << >>, hit |-> FALSE,
     checked |-> FALSE, admitted |-> FALSE, templ |-> 0, t0 |-> 0,
     outcome |-> "none", retryAfter |-> 0, resp |-> NoResp, reclaims |-> 0,
     runs |-> 0, wt |-> "none", recorded |-> 0, got |-> NoObj, timedOut |-> FALSE]

IdleWk ==
    [stage |-> "none", used |-> "none", real_count |-> 0, fb |-> "none",
     fbT0 |-> 0, res |-> "none", names |-> 0, mock |-> FALSE, allocated_gb |-> 0]

Init ==
    /\ scenario \in {"solo", "duo"}
    /\ wiring \in {"route", "app_state"}
    /\ call = NoCall
    /\ now = 0
    /\ models = {}
    /\ memory = [k \in Keys |-> NoObj]
    /\ lru = << >>
    /\ byUse = << >>
    /\ gets = 0
    /\ hist = [victim |-> NoKey, cleared |-> FALSE, loads |-> NoLoads]
    /\ bucket \in BOOLEAN
    /\ \E pre \in SUBSET {<<"cat">>}, before \in {StoredBefore, StoredMock} :
         /\ (bucket /\ scenario = "solo") \/ pre = {}
         /\ storage = [k \in Keys |-> IF k \in pre THEN before ELSE NoResp]
    /\ obj = [o \in ObjIds |-> NoResp]
    /\ stats = [memory_hits |-> 0, storage_hits |-> 0, misses |-> 0]
    /\ genWindow = << >>
    /\ reqTotal = 0
    /\ rq = [r \in Reqs |-> IdleRq]
    /\ wk = [r \in Reqs |-> IdleWk]

\* Requests the clients issue in this run.
Quota == IF scenario = "solo" THEN 1 ELSE NReq

\* What the collaborators do in this run.
ImageResults == IF scenario = "solo" THEN {"ok"} \cup Exc ELSE {"ok", "err"}
PrimaryExc == IF scenario = "solo" THEN Exc ELSE {}
PrimaryCounts(expected) == IF scenario = "solo" THEN 0..expected ELSE {0, expected}
LoadResults == IF scenario = "solo" THEN {"ok"} \cup FbExc ELSE {"ok"}
MeshResults == IF scenario = "solo" THEN {"ok"} \cup FbExc ELSE {"ok"}
SegmentExc == IF scenario = "solo" THEN FbExc ELSE {}
\* torch.cuda.memory_allocated() / 1e9 when the fallback has finished.
VramLevels == IF scenario = "solo" THEN 0..(vram_offload_threshold_gb + 1) ELSE {0}
\* Whether loop.run_in_executor in ShapeCache.set raises (shape_cache.py:140).
DispatchResults == IF scenario = "solo" THEN {"ok", "err"} ELSE {"ok"}

\* ------------------------------------------------------------ PipelineMetrics
\* Timestamps of the window that are younger than 60 s at time t.
InWindow(t) == {i \in 1..Len(genWindow) : genWindow[i] > t - WindowTicks}

recent_generations_per_minute(t) == Cardinality(InWindow(t))

\* Seconds until the oldest in-window timestamp leaves the window.
oldest_generation_retry_after(t) ==
    IF InWindow(t) = {} THEN 0
    ELSE LET first == CHOOSE i \in InWindow(t) : \A j \in InWindow(t) : i <= j
         IN  (genWindow[first] + WindowTicks) - t

\* PipelineMetrics.record_request(pipeline, latency, cached): the window after it.
record_request(window, cached, t) == IF cached THEN window ELSE Append(window, t)

\* ------------------------------------------------------------ ShapeCache
\* Keys the fast tier holds.
Present(mem) == {k \in DOMAIN mem : mem[k] # NoObj}

Without(order, key) == LET Other(k) == k # key IN SelectSeq(order, Other)

\* Faulty variant of Touch: a key already held keeps its place.
TouchNot(order, key) ==
    IF \E i \in 1..Len(order) : order[i] = key THEN order ELSE Append(order, key)

\* cachetools.LRUCache: __getitem__ and __setitem__ make the key the most
\* recently used one.
Touch(order, key) == Append(Without(order, key), key)

\* Faulty variant of SetItem: nothing is popped from a full cache.
SetItemNoEvict(mem, order, key, o) ==
    [mem |-> [mem EXCEPT ![key] = o], order |-> Touch(order, key), popped |-> NoKey]

\* cachetools.LRUCache.__setitem__ (shape_cache.py:109, 135): a new key in a
\* full cache first pops the least recently used key.
SetItem(mem, order, key, o) ==
    IF mem[key] # NoObj
    THEN [mem |-> [mem EXCEPT ![key] = o], order |-> Touch(order, key),
          popped |-> NoKey]
    ELSE IF Len(order) >= memory_capacity
    THEN [mem |-> [mem EXCEPT ![Head(order)] = NoObj, ![key] = o],
          order |-> Append(Tail(order), key), popped |-> Head(order)]
    ELSE [mem |-> [mem EXCEPT ![key] = o], order |-> Append(order, key),
          popped |-> NoKey]

\* History: the key the write popped, if any.
Evicted(after) ==
    IF after.popped = NoKey THEN hist ELSE [hist EXCEPT !.victim = after.popped]

\* History: the keys of mem2 by last use, key being used now.
UsedNow(key, mem2) ==
    LET InMem(k) == k \in Present(mem2)
    IN  SelectSeq(Append(Without(byUse, key), key), InMem)

\* shape_cache.py:98-101: fast-tier hit.
GetHitMemory(key) ==
    /\ stats' = [stats EXCEPT !.memory_hits = @ + 1]
    /\ lru' = Touch(lru, key)
    /\ byUse' = UsedNow(key, memory)
    /\ gets' = gets + 1
    /\ UNCHANGED <<memory, hist>>

\* Faulty variant of get_from_storage: a failed read is not turned into None.
get_from_storage_unguarded(readOk, stored) ==
    IF readOk THEN stored ELSE [cached |-> FALSE, tier |-> "raised", names |-> 0]

\* shape_cache.py:117-125 _get_from_storage: the blob if it exists and the
\* read succeeds; an exception of the read is logged and None is returned.
get_from_storage(readOk, stored) == IF readOk THEN stored ELSE NoResp

\* Faulty variant of GetHitStorage: the durable hit is not promoted.
GetHitStorageNoPromote(key, o) ==
    /\ stats' = [stats EXCEPT !.storage_hits = @ + 1]
    /\ gets' = gets + 1
    /\ UNCHANGED <<memory, lru, byUse, hist>>

\* shape_cache.py:107-111: durable hit, promoted into the fast tier.
GetHitStorage(key, o) ==
    LET after == SetItem(memory, lru, key, o)
    IN  /\ stats' = [stats EXCEPT !.storage_hits = @ + 1]
        /\ memory' = after.mem
        /\ lru' = after.order
        /\ byUse' = UsedNow(key, after.mem)
        /\ hist' = Evicted(after)
        /\ gets' = gets + 1

\* Faulty variant of GetMiss: the miss is not counted.
GetMissUncounted ==
    /\ gets' = gets + 1
    /\ UNCHANGED <<stats, memory, lru, byUse, hist>>

\* shape_cache.py:113-115: miss.
GetMiss ==
    /\ stats' = [stats EXCEPT !.misses = @ + 1]
    /\ gets' = gets + 1
    /\ UNCHANGED <<memory, lru, byUse, hist>>

\* Faulty variant of SetMemory: an entry the key already holds is kept.
SetMemoryKeepFirst(key, o) ==
    IF memory[key] # NoObj
    THEN UNCHANGED <<memory, lru, byUse, hist, stats, gets>>
    ELSE LET after == SetItem(memory, lru, key, o)
         IN  /\ memory' = after.mem
             /\ lru' = after.order
             /\ byUse' = UsedNow(key, after.mem)
             /\ hist' = Evicted(after)
             /\ UNCHANGED <<stats, gets>>

\* shape_cache.py:135: ShapeCache.set writes the fast tier.
SetMemory(key, o) ==
    LET after == SetItem(memory, lru, key, o)
    IN  /\ memory' = after.mem
        /\ lru' = after.order
        /\ byUse' = UsedNow(key, after.mem)
        /\ hist' = Evicted(after)
        /\ UNCHANGED <<stats, gets>>

\* ------------------------------------------------------------ orchestrator
\* routes/generate.py builds PipelineOrchestrator(registry, cache, settings):
\* no metrics.  main.py builds the application's orchestrator with metrics.
HasMetrics == wiring = "app_state"

\* Faulty variant of CacheHit: the lookup result is never taken as a hit.
CacheHitIgnored(o) == FALSE

\* pipeline.py:83  `if cached is not None`
CacheHit(o) == o # NoObj

\* pipeline.py:103 `if recent >= gen_limit`
RateLimitReached(recent, gen_limit) == recent >= gen_limit

\* pipeline.py:83-90: stamp the object the cache returned and return it.
HitReturn(r, q, o, heap) ==
    /\ obj' = [heap EXCEPT ![o].cached = TRUE]
    /\ rq' = [rq EXCEPT ![r] =
                [q EXCEPT !.pc = "done", !.hit = TRUE, !.outcome = "ok",
                          !.got = o,
                          !.resp = [heap[o] EXCEPT !.cached = TRUE],
                          !.recorded = IF HasMetrics THEN 1 ELSE 0]]
    /\ reqTotal' = IF HasMetrics THEN reqTotal + 1 ELSE reqTotal
    /\ genWindow' = IF HasMetrics
                    THEN record_request(genWindow, TRUE, now) ELSE genWindow
    /\ UNCHANGED wk

\* pipeline.py:91-130: rate check, template lookup, dispatch to the executor.
MissPath(r, q) ==
    /\ UNCHANGED <<obj, reqTotal, genWindow>>
    /\ IF HasMetrics
          /\ RateLimitReached(recent_generations_per_minute(now),
                              generation_rate_limit_per_minute)
       THEN /\ rq' = [rq EXCEPT ![r] =
                        [q EXCEPT !.pc = "done", !.checked = TRUE,
                                  !.outcome = "RateLimited",
                                  !.retryAfter = oldest_generation_retry_after(now)]]
            /\ UNCHANGED wk
       ELSE /\ rq' = [rq EXCEPT ![r] =
                        [q EXCEPT !.pc = "waiting", !.checked = HasMetrics,
                                  !.admitted = TRUE, !.templ = num_parts(q.text),
                                  !.t0 = now, !.runs = @ + 1]]
            /\ wk' = [wk EXCEPT ![r].stage = "image"]

\* After cache.get returned o (NoObj: absent).
AfterLookup(r, q, o, heap) ==
    IF CacheHit(o) THEN HitReturn(r, q, o, heap)
    ELSE MissPath(r, [q EXCEPT !.got = o])

\* generate(request) up to its first await: ShapeCache.get, memory tier.
Start(r) ==
    /\ rq[r].pc = "idle"
    /\ r <= Quota
    /\ IF r = 1 THEN TRUE ELSE rq[r - 1].pc # "idle"
    /\ \E t \in Texts :
         LET q == [rq[r] EXCEPT !.text = t]
             key == normalize_key(t)
         IN  IF memory[key] # NoObj
             THEN /\ GetHitMemory(key)
                  /\ AfterLookup(r, q, memory[key], obj)
             ELSE IF bucket
             THEN /\ rq' = [rq EXCEPT ![r] = [q EXCEPT !.pc = "storage_read"]]
                  /\ UNCHANGED <<stats, memory, lru, byUse, gets, hist, obj, reqTotal, genWindow, wk>>
             ELSE /\ GetMiss
                  /\ AfterLookup(r, q, NoObj, obj)
    /\ UNCHANGED <<now, models, storage, bucket, scenario, wiring, call>>

\* ShapeCache.get resumed after _get_from_storage (a failed read yields None).
StorageRead(r) ==
    /\ rq[r].pc = "storage_read"
    /\ LET key == normalize_key(rq[r].text)
           o == NReq + r
       IN  \E readOk \in BOOLEAN :
             LET result == get_from_storage(readOk, storage[key])
             IN
             IF result # NoResp
             THEN /\ GetHitStorage(key, o)
                  /\ AfterLookup(r, rq[r], o, [obj EXCEPT ![o] = result])
             ELSE /\ GetMiss
                  /\ AfterLookup(r, rq[r], NoObj, obj)
    /\ UNCHANGED <<now, models, storage, bucket, scenario, wiring, call>>


\* ------------------------------------------------------------ worker thread
\* pipeline.py:238 `real_count < max(template.num_parts * 0.5, 1)` (logged only)
InsufficientParts(real_count, expected) == 2 * real_count < Max(expected, 2)

\* pipeline.py:249 `if not valid_meshes` ... else: sample and return
PrimaryUsable(real_count, expected) == real_count >= 1

\* pipeline.py:301 cumulative fallback timer, read after the mesh step
FallbackTimedOut(elapsed) == elapsed > fallback_timeout_seconds

\* An exception leaves _generate_sync: the executor future holds it.
Raise(w, kind) == [w EXCEPT !.stage = "finished", !.res = kind, !.fbT0 = 0]

\* _generate_sync returns (positions, part_ids, part_names, pipeline_used).
Return(w, names) ==
    [w EXCEPT !.stage = "finished", !.res = "ok", !.names = names, !.fbT0 = 0]

\* Faulty variant of FallbackExcept: every exception is re-raised.
FallbackExceptReraises(w, kind) ==
    [w EXCEPT !.fb = kind, !.stage = "finished", !.res = kind, !.fbT0 = 0]

\* pipeline.py:372-385: the fallback's except clause.  OOM is re-raised,
\* anything else is logged and the code falls to the safety net.
FallbackExcept(w, kind) ==
    IF kind = "oom" THEN Raise([w EXCEPT !.fb = kind], kind)
    ELSE [w EXCEPT !.fb = kind, !.stage = "safety_net", !.fbT0 = 0]

\* pipeline.py:214-225: image synthesis.
WImage(r) ==
    /\ wk[r].stage = "image"
    /\ IF "sdxl_turbo" \notin models
       THEN wk' = [wk EXCEPT ![r] = [@ EXCEPT !.used = "mock", !.stage = "safety_net"]]
       ELSE \E res \in ImageResults :
              wk' = [wk EXCEPT ![r] =
                       IF res = "ok"
                       THEN [@ EXCEPT !.used = "sdxl_turbo+mock", !.stage = "primary"]
                       ELSE Raise([@ EXCEPT !.used = "mock"], res)]
    /\ UNCHANGED <<now, models, memory, lru, byUse, gets, hist, storage, bucket, obj, stats, genWindow, reqTotal, scenario, wiring, call, rq>>

\* pipeline.py:228-274: part-mesh synthesis and sampling from the valid meshes.
WPrimary(r) ==
    /\ wk[r].stage = "primary"
    /\ IF "partcrafter" \notin models
       THEN wk' = [wk EXCEPT ![r] = [@ EXCEPT !.stage = "fb_load_h"]]
       ELSE \/ \E res \in PrimaryExc :
                 wk' = [wk EXCEPT ![r] = Raise(@, res)]
            \/ \E real_count \in PrimaryCounts(rq[r].templ) :
                 wk' = [wk EXCEPT ![r] =
                          IF PrimaryUsable(real_count, rq[r].templ)
                          THEN Return([@ EXCEPT !.used = "partcrafter",
                                                !.real_count = real_count], real_count)
                          ELSE [@ EXCEPT !.stage = "fb_load_h"]]
    /\ UNCHANGED <<now, models, memory, lru, byUse, gets, hist, storage, bucket, obj, stats, genWindow, reqTotal, scenario, wiring, call, rq>>

\* ModelRegistry.get_or_load(name, factory) inside the fallback's try block,
\* up to the call of the factory (registry.py:56): w is the worker's record
\* when the call is made.  No lock is held between the test and register.
GetOrLoad(r, w, name, loading, next) ==
    wk' = [wk EXCEPT ![r] = [w EXCEPT !.stage = IF name \in models THEN next ELSE loading]]

\* registry.py:57-60: the factory runs in the calling thread, then register
\* stores what it built; an exception of the factory leaves get_or_load.
Factory(r, name, next) ==
    /\ hist' = [hist EXCEPT !.loads[name] = @ + 1]
    /\ \E res \in LoadResults :
         IF res = "ok"
         THEN /\ models' = models \cup {name}
              /\ wk' = [wk EXCEPT ![r] = [@ EXCEPT !.stage = next]]
         ELSE /\ wk' = [wk EXCEPT ![r] = FallbackExcept(@, res)]
              /\ UNCHANGED models

\* pipeline.py:281-289: start the fallback timer, ask for the mesh model.
WFbLoadH(r) ==
    /\ wk[r].stage = "fb_load_h"
    /\ GetOrLoad(r, [wk[r] EXCEPT !.fbT0 = now], "hunyuan3d_turbo", "fb_factory_h", "fb_load_s")
    /\ UNCHANGED <<now, models, memory, lru, byUse, gets, hist, storage, bucket, obj, stats, genWindow, reqTotal, scenario, wiring, call, rq>>

\* pipeline.py:288 through registry.py:57-59: Hunyuan3DTurboModel is built.
WFbFactoryH(r) ==
    /\ wk[r].stage = "fb_factory_h"
    /\ Factory(r, "hunyuan3d_turbo", "fb_load_s")
    /\ UNCHANGED <<now, memory, lru, byUse, gets, storage, bucket, obj, stats, genWindow, reqTotal, scenario, wiring, call, rq>>

\* pipeline.py:290-293: ask for the segmentation model.
WFbLoadS(r) ==
    /\ wk[r].stage = "fb_load_s"
    /\ GetOrLoad(r, wk[r], "grounded_sam2", "fb_factory_s", "fb_mesh")
    /\ UNCHANGED <<now, models, memory, lru, byUse, gets, hist, storage, bucket, obj, stats, genWindow, reqTotal, scenario, wiring, call, rq>>

\* pipeline.py:292 through registry.py:57-59: GroundedSAM2Model is built.
WFbFactoryS(r) ==
    /\ wk[r].stage = "fb_factory_s"
    /\ Factory(r, "grounded_sam2", "fb_mesh")
    /\ UNCHANGED <<now, memory, lru, byUse, gets, storage, bucket, obj, stats, genWindow, reqTotal, scenario, wiring, call, rq>>

\* pipeline.py:295-307: monolithic mesh, then the fallback timer check.
WFbMesh(r) ==
    /\ wk[r].stage = "fb_mesh"
    /\ \E res \in MeshResults :
         wk' = [wk EXCEPT ![r] =
                  IF res # "ok" THEN FallbackExcept(@, res)
                  ELSE IF FallbackTimedOut(now - @.fbT0) THEN FallbackExcept(@, "timer")
                  ELSE [@ EXCEPT !.stage = "fb_segment"]]
    /\ UNCHANGED <<now, models, memory, lru, byUse, gets, hist, storage, bucket, obj, stats, genWindow, reqTotal, scenario, wiring, call, rq>>

\* Faulty variant of OffloadTriggered: usage at the threshold triggers too.
OffloadAtThreshold(allocated_gb, threshold) == allocated_gb >= threshold

\* pipeline.py:360 `if allocated_gb > threshold`
OffloadTriggered(allocated_gb, threshold) == allocated_gb > threshold

\* ModelRegistry.unload of both fallback models (pipeline.py:365-366).
unload_fallback(loaded) == loaded \ FALLBACK_MODELS

\* pipeline.py:309-370: render, segment, fuse, sample; then the VRAM offload.
\* pipeline_used is set at line 336, before the offload step.
WFbSegment(r) ==
    /\ wk[r].stage = "fb_segment"
    /\ \/ \E res \in SegmentExc :
            /\ wk' = [wk EXCEPT ![r] = FallbackExcept(@, res)]
            /\ UNCHANGED <<models, hist>>
       \/ \E allocated_gb \in VramLevels :
            LET w == [wk[r] EXCEPT !.fb = "ok", !.used = "hunyuan3d_grounded_sam",
                                   !.allocated_gb = allocated_gb]
            IN  /\ wk' = [wk EXCEPT ![r] = Return(w, rq[r].templ)]
                /\ IF OffloadTriggered(allocated_gb, vram_offload_threshold_gb)
                   THEN /\ models' = unload_fallback(models)
                        /\ hist' = [hist EXCEPT !.loads = NoLoads]
                   ELSE UNCHANGED <<models, hist>>
    /\ UNCHANGED <<now, memory, lru, byUse, gets, storage, bucket, obj, stats, genWindow, reqTotal, scenario, wiring, call, rq>>

\* Faulty variant of WSafetyNet: the procedural generation raises.
WSafetyNetRaises(r) ==
    /\ wk[r].stage = "safety_net"
    /\ wk' = [wk EXCEPT ![r] = Raise([@ EXCEPT !.mock = TRUE], "err")]
    /\ UNCHANGED <<now, models, memory, lru, byUse, gets, hist, storage, bucket, obj, stats, genWindow, reqTotal, scenario, wiring, call, rq>>

\* pipeline.py:387-406: procedural point cloud; returns pipeline_used as it stands.
WSafetyNet(r) ==
    /\ wk[r].stage = "safety_net"
    /\ wk' = [wk EXCEPT ![r] = Return([@ EXCEPT !.mock = TRUE], rq[r].templ)]
    /\ UNCHANGED <<now, models, memory, lru, byUse, gets, hist, storage, bucket, obj, stats, genWindow, reqTotal, scenario, wiring, call, rq>>

\* ------------------------------------------------------------ back on the loop
\* Faulty variant of ErrorKind: the OOM test is missing.
ErrorKindNoOom(exc) ==
    IF exc = "timeout_err" THEN "GenerationTimeout" ELSE "GenerationFailed"

\* pipeline.py:131-148: what the except clauses make of the worker's exception.
ErrorKind(exc) ==
    IF exc = "timeout_err" THEN "GenerationTimeout"
    ELSE IF exc = "oom" THEN "GPUOutOfMemory"
    ELSE "GenerationFailed"

\* pipeline.py:141-143: torch.cuda.empty_cache() calls made for the exception.
Reclaims(exc) == IF exc = "oom" THEN 1 ELSE 0

\* Faulty variant of ScheduleWrite: a safety-net result is not written through.
ScheduleWriteSkipsMock(q) ==
    IF q.resp.tier \in {"mock", "sdxl_turbo+mock"} THEN q ELSE [q EXCEPT !.wt = "scheduled"]

\* pipeline.py:173 asyncio.create_task(_write_cache())
ScheduleWrite(q) == [q EXCEPT !.wt = "scheduled"]

\* Faulty variant of Awaiting: the late result is still delivered after the timeout.
AwaitingOrTimedOut(r) == rq[r].pc = "waiting" \/ rq[r].timedOut

\* The coroutine is suspended in `await asyncio.wait_for(...)` (pipeline.py:127).
Awaiting(r) == rq[r].pc = "waiting"

\* pipeline.py:127-187: wait_for returned the worker's result or exception.
Resume(r) ==
    /\ Awaiting(r)
    /\ wk[r].stage = "finished"
    /\ IF wk[r].res = "ok"
       THEN LET response == [cached |-> FALSE, tier |-> wk[r].used, names |-> wk[r].names]
                m == HasMetrics
            IN  /\ obj' = [obj EXCEPT ![r] = response]
                /\ rq' = [rq EXCEPT ![r] =
                            ScheduleWrite([@ EXCEPT !.pc = "done", !.outcome = "ok",
                                                    !.resp = response,
                                                    !.recorded = IF m THEN 1 ELSE 0])]
                /\ reqTotal' = IF m THEN reqTotal + 1 ELSE reqTotal
                /\ genWindow' = IF m THEN record_request(genWindow, FALSE, now)
                                ELSE genWindow
       ELSE /\ rq' = [rq EXCEPT ![r] =
                        [@ EXCEPT !.pc = "done", !.outcome = ErrorKind(wk[r].res),
                                  !.reclaims = @ + Reclaims(wk[r].res)]]
            /\ UNCHANGED <<obj, reqTotal, genWindow>>
    /\ UNCHANGED <<now, models, memory, lru, byUse, gets, hist, storage, bucket, stats, scenario, wiring, call, wk>>

\* asyncio.wait_for gives up on the worker.
WaitExpired(r) == rq[r].pc = "waiting" /\ now - rq[r].t0 >= generation_timeout_seconds

\* pipeline.py:131-134: the timeout elapsed first; the worker thread is left running.
Timeout(r) ==
    /\ WaitExpired(r)
    /\ wk[r].stage # "finished"
    /\ rq' = [rq EXCEPT ![r] =
                [@ EXCEPT !.pc = "done", !.outcome = "GenerationTimeout",
                          !.timedOut = TRUE]]
    /\ UNCHANGED <<now, models, memory, lru, byUse, gets, hist, storage, bucket, obj, stats, genWindow, reqTotal, scenario, wiring, call, wk>>

\* Faulty variant of WriteFailed: the failure reaches the request.
WriteFailedSurfaces(q) == [q EXCEPT !.wt = "failed", !.outcome = "GenerationFailed"]

\* pipeline.py:170-171 and shape_cache.py:150-151: the failure is logged.
WriteFailed(q) == [q EXCEPT !.wt = "failed"]

\* _write_cache task: ShapeCache.set up to its await (shape_cache.py:129-140);
\* an exception of set is caught by the task (pipeline.py:170-171).
WriteCache(r) ==
    /\ rq[r].wt = "scheduled"
    /\ SetMemory(normalize_key(rq[r].text), r)
    /\ IF bucket
       THEN \E dispatch \in DispatchResults :
                rq' = [rq EXCEPT ![r] = IF dispatch = "ok"
                                        THEN [@ EXCEPT !.wt = "uploading"]
                                        ELSE WriteFailed(@)]
       ELSE rq' = [rq EXCEPT ![r].wt = "done"]
    /\ UNCHANGED <<now, models, storage, bucket, obj, genWindow, reqTotal, scenario, wiring, call, wk>>

\* _set_in_storage in the executor: the object is serialized when the thread
\* runs; an upload error is logged (shape_cache.py:142-151).
Upload(r) ==
    /\ rq[r].wt = "uploading"
    /\ \E uploadOk \in BOOLEAN :
         IF uploadOk
         THEN /\ storage' = [storage EXCEPT ![normalize_key(rq[r].text)] = obj[r]]
              /\ rq' = [rq EXCEPT ![r].wt = "done"]
         ELSE /\ rq' = [rq EXCEPT ![r] = WriteFailed(@)]
              /\ UNCHANGED storage
    /\ UNCHANGED <<now, models, memory, lru, byUse, gets, hist, bucket, obj, stats, genWindow, reqTotal, scenario, wiring, call, wk>>

\* main.py:155-164 background load: sdxl_turbo, then partcrafter
\* (tests register the same two by hand).
Register(name) ==
    /\ name \in PRIMARY_MODELS \ models
    /\ name = "partcrafter" => "sdxl_turbo" \in models
    /\ models' = models \cup {name}
    /\ UNCHANGED <<now, memory, lru, byUse, gets, hist, storage, bucket, obj, stats, genWindow, reqTotal, scenario, wiring, call, rq, wk>>

\* The clock.  The loop's timer fires when due: time does not pass over an
\* expired wait.
Tick ==
    /\ now < MaxTime
    /\ \A r \in Reqs : ~WaitExpired(r)
    /\ now' = now + 1
    /\ UNCHANGED <<models, memory, lru, byUse, gets, hist, storage, bucket, obj, stats, genWindow, reqTotal, scenario, wiring, call, rq, wk>>

Next ==
    \/ \E r \in Reqs : Start(r)
    \/ \E r \in Reqs : StorageRead(r)
    \/ \E r \in Reqs : WImage(r)
    \/ \E r \in Reqs : WPrimary(r)
    \/ \E r \in Reqs : WFbLoadH(r)
    \/ \E r \in Reqs : WFbFactoryH(r)
    \/ \E r \in Reqs : WFbLoadS(r)
    \/ \E r \in Reqs : WFbFactoryS(r)
    \/ \E r \in Reqs : WFbMesh(r)
    \/ \E r \in Reqs : WFbSegment(r)
    \/ \E r \in Reqs : WSafetyNet(r)
    \/ \E r \in Reqs : Resume(r)
    \/ \E r \in Reqs : Timeout(r)
    \/ \E r \in Reqs : WriteCache(r)
    \/ \E r \in Reqs : Upload(r)
    \/ \E name \in PRIMARY_MODELS : Register(name)
    \/ Tick

Spec == Init /\ [][Next]_vars

\* One request, with the scheduling the code relies on: the executor runs
\* the worker thread to its end (collaborator calls return or raise), the
\* event loop runs a coroutine whose await is ready and fires a due timer.
InitSolo == Init /\ scenario = "solo"

WorkerStep(r) ==
    \/ WImage(r) \/ WPrimary(r) \/ WFbLoadH(r) \/ WFbFactoryH(r)
    \/ WFbLoadS(r) \/ WFbFactoryS(r)
    \/ WFbMesh(r) \/ WFbSegment(r) \/ WSafetyNet(r)

FairSpec ==
    /\ InitSolo
    /\ [][Next]_vars
    /\ \A r \in Reqs : WF_vars(WorkerStep(r))
    /\ \A r \in Reqs : WF_vars(Resume(r))
    /\ \A r \in Reqs : WF_vars(Timeout(r))
    /\ \A r \in Reqs : WF_vars(StorageRead(r))

\* ------------------------------------------------------------ ShapeCache alone
\* The cache driven by direct callers (main.py:206 cache warm-up,
\* routes/debug.py:84-90 clear): get, set and clear_memory in any order.
CacheTexts == {<<"the", "horse">>, <<"cat">>, <<"a", "dog">>}
CacheKeys == {normalize_key(t) : t \in CacheTexts}

\* A response a direct caller hands to ShapeCache.set.
Generated == StoredBefore

\* The callers that look up, and the callers that store.
Readers == Reqs
Writers == Reqs \ {1}

CacheInit ==
    /\ scenario = "cache"
    /\ wiring = "route"
    /\ call = NoCall
    /\ now = 0
    /\ models = {}
    /\ memory = [k \in CacheKeys |-> NoObj]
    /\ lru = << >>
    /\ byUse = << >>
    /\ gets = 0
    /\ hist = [victim |-> NoKey, cleared |-> FALSE, loads |-> NoLoads]
    /\ bucket \in BOOLEAN
    /\ \E pre \in SUBSET CacheKeys :
         /\ bucket \/ pre = {}
         /\ storage = [k \in CacheKeys |-> IF k \in pre THEN StoredBefore ELSE NoResp]
    /\ obj = [o \in ObjIds |-> IF o \in Reqs THEN Generated ELSE NoResp]
    /\ stats = [memory_hits |-> 0, storage_hits |-> 0, misses |-> 0]
    /\ genWindow = << >>
    /\ reqTotal = 0
    /\ rq = [r \in Reqs |-> IdleRq]
    /\ wk = [r \in Reqs |-> IdleWk]

\* get calls suspended in run_in_executor (shape_cache.py:106).
PendingReads == {r \in Reqs : rq[r].pc = "storage_read"}

\* ShapeCache.get(text) up to its await (shape_cache.py:92-106, 113-115).
CacheGet(r) ==
    /\ r \in Readers
    /\ rq[r].pc = "idle" /\ rq[r].wt # "uploading"
    /\ gets + Cardinality(PendingReads) < MaxGets
    /\ \E t \in CacheTexts :
         LET key == normalize_key(t)
         IN  IF memory[key] # NoObj
             THEN /\ GetHitMemory(key)
                  /\ rq' = [rq EXCEPT ![r] = [@ EXCEPT !.text = t, !.got = memory[key],
                                                       !.outcome = "memory_hit"]]
             ELSE IF bucket
             THEN /\ rq' = [rq EXCEPT ![r] = [@ EXCEPT !.text = t, !.pc = "storage_read"]]
                  /\ UNCHANGED <<stats, memory, lru, byUse, gets, hist>>
             ELSE /\ GetMiss
                  /\ rq' = [rq EXCEPT ![r] = [@ EXCEPT !.text = t, !.got = NoObj,
                                                       !.outcome = "miss"]]
    /\ UNCHANGED <<now, models, storage, bucket, obj, genWindow, reqTotal, scenario, wiring, call, wk>>

\* ShapeCache.get resumed after _get_from_storage (shape_cache.py:107-125).
CacheGetStorage(r) ==
    /\ rq[r].pc = "storage_read"
    /\ LET key == normalize_key(rq[r].text)
           o == NReq + r
       IN  \E readOk \in BOOLEAN :
             LET result == get_from_storage(readOk, storage[key])
             IN
             IF result # NoResp
             THEN /\ GetHitStorage(key, o)
                  /\ obj' = [obj EXCEPT ![o] = result]
                  /\ rq' = [rq EXCEPT ![r] = [@ EXCEPT !.pc = "idle", !.got = o,
                                                       !.outcome = "storage_hit"]]
             ELSE /\ GetMiss
                  /\ rq' = [rq EXCEPT ![r] = [@ EXCEPT !.pc = "idle", !.got = NoObj,
                                                       !.outcome = "miss"]]
                  /\ UNCHANGED obj
    /\ UNCHANGED <<now, models, storage, bucket, genWindow, reqTotal, scenario, wiring, call, wk>>

\* ShapeCache.set(text, response) up to its await (shape_cache.py:129-140).
CacheSet(r) ==
    /\ r \in Writers
    /\ rq[r].pc = "idle" /\ rq[r].wt # "uploading"
    /\ \E t \in CacheTexts :
         /\ SetMemory(normalize_key(t), r)
         /\ rq' = [rq EXCEPT ![r] = [@ EXCEPT !.text = t,
                                              !.wt = IF bucket THEN "uploading" ELSE "done"]]
    /\ UNCHANGED <<now, models, storage, bucket, obj, genWindow, reqTotal, scenario, wiring, call, wk>>

\* Faulty variant of clear_memory: the counters are reset as well.
clear_memory_and_stats ==
    /\ memory' = [k \in DOMAIN memory |-> NoObj]
    /\ lru' = << >>
    /\ byUse' = << >>
    /\ hist' = [hist EXCEPT !.cleared = TRUE]
    /\ stats' = [memory_hits |-> 0, storage_hits |-> 0, misses |-> 0]
    /\ UNCHANGED <<now, models, gets, storage, bucket, obj, genWindow, reqTotal, scenario, wiring, call, rq, wk>>

\* ShapeCache.clear_memory (shape_cache.py:168-171).
clear_memory ==
    /\ memory' = [k \in DOMAIN memory |-> NoObj]
    /\ lru' = << >>
    /\ byUse' = << >>
    /\ hist' = [hist EXCEPT !.cleared = TRUE]
    /\ UNCHANGED <<now, models, gets, storage, bucket, obj, stats, genWindow, reqTotal, scenario, wiring, call, rq, wk>>

CacheNext ==
    \/ \E r \in Reqs : CacheGet(r)
    \/ \E r \in Reqs : CacheGetStorage(r)
    \/ \E r \in Reqs : CacheSet(r)
    \/ \E r \in Reqs : Upload(r)
    \/ clear_memory

CacheSpec == CacheInit /\ [][CacheNext]_vars

\* ------------------------------------------------------------ ModelRegistry alone
\* The registry driven by its callers: the start-up load (Register), get as
\* pipeline.py:215, 229 and routes/debug.py:124 call it, and get_or_load as
\* the fallback calls it, from any thread in any order.
MODEL_NAMES == PRIMARY_MODELS \cup FALLBACK_MODELS

RegistryInit ==
    /\ scenario = "registry"
    /\ wiring = "route"
    /\ call = NoCall
    /\ now = 0
    /\ models = {}
    /\ memory = [k \in Keys |-> NoObj]
    /\ lru = << >>
    /\ byUse = << >>
    /\ gets = 0
    /\ hist = [victim |-> NoKey, cleared |-> FALSE, loads |-> NoLoads]
    /\ bucket = FALSE
    /\ storage = [k \in Keys |-> NoResp]
    /\ obj = [o \in ObjIds |-> NoResp]
    /\ stats = [memory_hits |-> 0, storage_hits |-> 0, misses |-> 0]
    /\ genWindow = << >>
    /\ reqTotal = 0
    /\ rq = [r \in Reqs |-> IdleRq]
    /\ wk = [r \in Reqs |-> IdleWk]

\* registry.py:48-52 ModelRegistry.get: the handle, or the exception raised.
registry_get(name, loaded) == IF name \notin loaded THEN "KeyError" ELSE "ok"

\* A caller thread calls ModelRegistry.get(name).
RegistryGet(r) ==
    /\ wk[r].stage \in {"none", "returned"}
    /\ \E name \in MODEL_NAMES :
         wk' = [wk EXCEPT ![r] = [IdleWk EXCEPT !.stage = "returned", !.used = name,
                                                !.res = registry_get(name, models)]]
    /\ UNCHANGED <<now, models, memory, lru, byUse, gets, hist, storage, bucket, obj, stats, genWindow, reqTotal, scenario, wiring, call, rq>>

\* A caller thread calls ModelRegistry.get_or_load(name, factory), up to the
\* call of the factory.
RegistryGetOrLoad(r) ==
    /\ wk[r].stage \in {"none", "returned"}
    /\ \E name \in FALLBACK_MODELS :
         GetOrLoad(r, [IdleWk EXCEPT !.used = name, !.res = "ok"], name, "factory", "returned")
    /\ UNCHANGED <<now, models, memory, lru, byUse, gets, hist, storage, bucket, obj, stats, genWindow, reqTotal, scenario, wiring, call, rq>>

\* The factory of that call runs and its model is registered.
RegistryFactory(r) ==
    /\ wk[r].stage = "factory"
    /\ Factory(r, wk[r].used, "returned")
    /\ UNCHANGED <<now, memory, lru, byUse, gets, storage, bucket, obj, stats, genWindow, reqTotal, scenario, wiring, call, rq>>

RegistryNext ==
    \/ \E r \in Reqs : RegistryGet(r)
    \/ \E r \in Reqs : RegistryGetOrLoad(r)
    \/ \E r \in Reqs : RegistryFactory(r)
    \/ \E name \in PRIMARY_MODELS : Register(name)

RegistrySpec == RegistryInit /\ [][RegistryNext]_vars

\* ------------------------------------------------------------ normalize_key on raw text
\* ShapeCache.normalize_key character by character.  (normalize_key above is
\* the same function on texts given as their lowercase word lists.)
WordChars == {"a", "b", "A"}
Whitespace == {" "}
Punctuation == {"!"}
Alphabet == WordChars \cup Whitespace \cup Punctuation

\* _ARTICLES (shape_cache.py:22), spelled out.
ArticleSpellings == {<<"a">>, <<"a", "n">>, <<"t", "h", "e">>}

RawTexts == UNION {[1..n -> Alphabet] : n \in 0..MaxTextLen}

\* Every variable of the service at rest: the pure functions use none.
ServiceAtRest ==
    /\ wiring = "route"
    /\ now = 0
    /\ models = {}
    /\ memory = [k \in Keys |-> NoObj]
    /\ lru = << >>
    /\ byUse = << >>
    /\ gets = 0
    /\ hist = [victim |-> NoKey, cleared |-> FALSE, loads |-> NoLoads]
    /\ bucket = FALSE
    /\ storage = [k \in Keys |-> NoResp]
    /\ obj = [o \in ObjIds |-> NoResp]
    /\ stats = [memory_hits |-> 0, storage_hits |-> 0, misses |-> 0]
    /\ genWindow = << >>
    /\ reqTotal = 0
    /\ rq = [r \in Reqs |-> IdleRq]
    /\ wk = [r \in Reqs |-> IdleWk]

\* str.lower()
lower(text) == [i \in 1..Len(text) |-> IF text[i] = "A" THEN "a" ELSE text[i]]

RECURSIVE lstrip(_)
lstrip(text) ==
    IF text # << >> /\ Head(text) \in Whitespace THEN lstrip(Tail(text)) ELSE text

RECURSIVE rstrip(_)
rstrip(text) ==
    IF text # << >> /\ text[Len(text)] \in Whitespace
    THEN rstrip(SubSeq(text, 1, Len(text) - 1)) ELSE text

\* str.strip()
strip(text) == rstrip(lstrip(text))

\* re.sub(r"[^\w\s]", "", text)
sub_punctuation(text) ==
    LET Kept(c) == c \in WordChars \cup Whitespace IN SelectSeq(text, Kept)

\* str.split(): the maximal runs of non-whitespace characters.
RECURSIVE split(_)
split(text) ==
    LET t == lstrip(text)
        Spaces == {i \in 1..Len(t) : t[i] \in Whitespace}
        end == IF Spaces = {} THEN Len(t) + 1
               ELSE CHOOSE i \in Spaces : \A j \in Spaces : i <= j
    IN  IF t = << >> THEN << >>
        ELSE <<SubSeq(t, 1, end - 1)>> \o split(SubSeq(t, end, Len(t)))

\* " ".join(words)
RECURSIVE join(_)
join(words) ==
    IF words = << >> THEN << >>
    ELSE IF Len(words) = 1 THEN words[1]
    ELSE words[1] \o <<" ">> \o join(Tail(words))

\* shape_cache.py:80-83
normalize_key_text(raw) ==
    LET text == sub_punctuation(strip(lower(raw)))
        NotArticle(w) == w \notin ArticleSpellings
        words == SelectSeq(split(text), NotArticle)
    IN  IF words # << >> THEN join(words) ELSE text

NormalizeInit ==
    /\ scenario = "normalize"
    /\ ServiceAtRest
    /\ \E raw \in RawTexts :
         call = [fn |-> "normalize_key", text |-> raw, key |-> << >>,
                 again |-> << >>, step |-> 0]

\* normalize_key(text)
Normalize ==
    /\ call.step = 0
    /\ call' = [call EXCEPT !.key = normalize_key_text(call.text), !.step = 1]
    /\ UNCHANGED <<now, models, memory, lru, byUse, gets, hist, storage, bucket, obj, stats, genWindow, reqTotal, scenario, wiring, rq, wk>>

\* normalize_key of the key just computed
Renormalize ==
    /\ call.step = 1
    /\ call' = [call EXCEPT !.again = normalize_key_text(call.key), !.step = 2]
    /\ UNCHANGED <<now, models, memory, lru, byUse, gets, hist, storage, bucket, obj, stats, genWindow, reqTotal, scenario, wiring, rq, wk>>

NormalizeNext == Normalize \/ Renormalize

NormalizeSpec == NormalizeInit /\ [][NormalizeNext]_vars

\* ------------------------------------------------------------ map_masks_to_faces
\* pipeline/mask_to_faces.py.  A view is a face-identity map over MaskPixels
\* pixels and a dict (in insertion order) of part name -> set of the pixels
\* where the mask is True.  Face centroids lie on the X axis.
Pixels == 1..MaskPixels
PixelValues == (-1)..MaxFaces       \* -1 background; MaxFaces is no face of any mesh here
PART_NAMES == <<"left_ear", "right_ear">>
Coords == {-1, 1}
FaceIdx(num_faces) == 0..(num_faces - 1)

MaskItems == [part_name : {PART_NAMES[i] : i \in 1..Len(PART_NAMES)},
              mask : SUBSET Pixels \ {{}}]
MaskDicts ==
    {<< >>} \cup {<<e>> : e \in MaskItems}
    \cup {d \in MaskItems \X MaskItems : d[1].part_name # d[2].part_name}
Views == [masks_dict : MaskDicts, face_id_map : [Pixels -> PixelValues]]
RECURSIVE MaskCount(_)
MaskCount(views) ==
    IF views = << >> THEN 0 ELSE Len(Head(views).masks_dict) + MaskCount(Tail(views))

ViewLists ==
    {vs \in UNION {[1..n -> Views] : n \in 0..MaxViews} : MaskCount(vs) <= MaxMasks}

\* mask_to_faces.py:51-54, with face_id_map[mask] of line 79 taken at once.
EntriesOfView(view) ==
    [i \in 1..Len(view.masks_dict) |->
        [part_name |-> view.masks_dict[i].part_name,
         face_ids |-> {view.face_id_map[p] : p \in view.masks_dict[i].mask},
         area |-> Cardinality(view.masks_dict[i].mask)]]

RECURSIVE all_mask_entries(_)
all_mask_entries(views) ==
    IF views = << >> THEN << >>
    ELSE EntriesOfView(Head(views)) \o all_mask_entries(Tail(views))

\* mask_to_faces.py:62-67: part names in order of first appearance.
RECURSIVE unique_parts(_)
unique_parts(entries) ==
    IF entries = << >> THEN << >>
    ELSE LET before == unique_parts(SubSeq(entries, 1, Len(entries) - 1))
             name == entries[Len(entries)].part_name
         IN  IF \E i \in 1..Len(before) : before[i] = name THEN before
             ELSE Append(before, name)

InPartToIdx(entries, name) ==
    \E i \in 1..Len(unique_parts(entries)) : unique_parts(entries)[i] = name

part_to_idx(entries, name) ==
    (CHOOSE i \in 1..Len(unique_parts(entries)) : unique_parts(entries)[i] = name) - 1

\* mask_to_faces.py:70 sorted(..., key=area): stable, smallest first.
RECURSIVE sorted_entries(_)
sorted_entries(entries) ==
    IF entries = << >> THEN << >>
    ELSE LET before == sorted_entries(SubSeq(entries, 1, Len(entries) - 1))
             e == entries[Len(entries)]
             k == Cardinality({i \in 1..Len(before) : before[i].area <= e.area})
         IN  SubSeq(before, 1, k) \o <<e>> \o SubSeq(before, k + 1, Len(before))

\* np.inf of line 73: above every mask area.
Infinity == MaskPixels + 1

\* Faulty variant of SmallerArea: every mask overwrites.
AnyArea(area, current) == TRUE

\* mask_to_faces.py:85 `area < face_mask_area[fidx]`
SmallerArea(area, current) == area < current

\* mask_to_faces.py:75-87 for one entry.
LabelEntry(state, e, part_idx, num_faces) ==
    LET face_indices == {fidx \in e.face_ids : fidx >= 0}
        Wins(f) == /\ f \in face_indices /\ f < num_faces
                   /\ SmallerArea(e.area, state.face_mask_area[f])
    IN  [face_labels |-> [f \in FaceIdx(num_faces) |->
                            IF Wins(f) THEN part_idx ELSE state.face_labels[f]],
         face_mask_area |-> [f \in FaceIdx(num_faces) |->
                            IF Wins(f) THEN e.area ELSE state.face_mask_area[f]]]

\* mask_to_faces.py:46, 73-87: the loop over the sorted entries.
RECURSIVE LabelAll(_, _, _)
LabelAll(sorted, entries, num_faces) ==
    IF sorted = << >>
    THEN [face_labels |-> [f \in FaceIdx(num_faces) |-> -1],
          face_mask_area |-> [f \in FaceIdx(num_faces) |-> Infinity]]
    ELSE LET e == sorted[Len(sorted)]
         IN  LabelEntry(LabelAll(SubSeq(sorted, 1, Len(sorted) - 1), entries, num_faces),
                        e, part_to_idx(entries, e.part_name), num_faces)

Dist(a, b) == IF a >= b THEN a - b ELSE b - a

\* KDTree.query: the candidate face nearest to x (the first of equally near ones).
Nearest(candidates, x, centroids) ==
    CHOOSE c \in candidates :
        \A d \in candidates :
            \/ Dist(centroids[c + 1], x) < Dist(centroids[d + 1], x)
            \/ Dist(centroids[c + 1], x) = Dist(centroids[d + 1], x) /\ c <= d

\* mask_to_faces.py:186-218
clone_via_reflection(face_labels, centroids, source_idx, target_idx, num_faces) ==
    LET source_faces == {f \in FaceIdx(num_faces) : face_labels[f] = source_idx}
        unlabeled == {f \in FaceIdx(num_faces) : face_labels[f] = -1}
        Hit(s, f) == /\ f = Nearest(unlabeled, -centroids[s + 1], centroids)
                     /\ 10 * Dist(centroids[f + 1], -centroids[s + 1]) < 3
    IN  IF source_faces = {} \/ unlabeled = {} THEN face_labels
        ELSE [f \in FaceIdx(num_faces) |->
                IF \E s \in source_faces : Hit(s, f) THEN target_idx ELSE face_labels[f]]

\* mask_to_faces.py:132-143 for the part names used here.
find_symmetric_pair(name, all_names) ==
    LET pair == IF name = "left_ear" THEN "right_ear"
                ELSE IF name = "right_ear" THEN "left_ear" ELSE "none"
    IN  IF \E i \in 1..Len(all_names) : all_names[i] = pair THEN pair ELSE "none"

\* mask_to_faces.py:160-183: the loop from part_names[i] on.
RECURSIVE apply_symmetric_heuristic(_, _, _, _, _, _, _)
apply_symmetric_heuristic(face_labels, centroids, entries, part_names, num_faces, i, checked) ==
    IF i > Len(part_names) THEN face_labels
    ELSE LET name == part_names[i]
             pair == find_symmetric_pair(name, part_names)
         IN  IF name \in checked \/ ~InPartToIdx(entries, name)
                \/ pair = "none" \/ ~InPartToIdx(entries, pair)
             THEN apply_symmetric_heuristic(face_labels, centroids, entries, part_names,
                                            num_faces, i + 1, checked)
             ELSE LET idx_a == part_to_idx(entries, name)
                      idx_b == part_to_idx(entries, pair)
                      count_a == Cardinality({f \in FaceIdx(num_faces) : face_labels[f] = idx_a})
                      count_b == Cardinality({f \in FaceIdx(num_faces) : face_labels[f] = idx_b})
                      cloned == IF count_a > 0 /\ count_b = 0
                                THEN clone_via_reflection(face_labels, centroids, idx_a, idx_b, num_faces)
                                ELSE IF count_b > 0 /\ count_a = 0
                                THEN clone_via_reflection(face_labels, centroids, idx_b, idx_a, num_faces)
                                ELSE face_labels
                  IN  apply_symmetric_heuristic(cloned, centroids, entries, part_names,
                                                num_faces, i + 1, checked \cup {name, pair})

\* Faulty variant of fill_unlabeled: the faces no mask reached stay unassigned.
fill_unlabeled_skipped(face_labels, centroids, num_faces) == face_labels

\* mask_to_faces.py:99-110
fill_unlabeled(face_labels, centroids, num_faces) ==
    LET unlabeled == {f \in FaceIdx(num_faces) : face_labels[f] = -1}
        labeled == FaceIdx(num_faces) \ unlabeled
    IN  IF unlabeled # {} /\ labeled # {}
        THEN [f \in FaceIdx(num_faces) |->
                IF f \in unlabeled
                THEN face_labels[Nearest(labeled, centroids[f + 1], centroids)]
                ELSE face_labels[f]]
        ELSE IF labeled = {} THEN [f \in FaceIdx(num_faces) |-> 0]
        ELSE face_labels

\* mask_to_faces.py:17-120
map_masks_to_faces(views, mesh_face_centroids, part_names) ==
    LET num_faces == Len(mesh_face_centroids)
        entries == all_mask_entries(views)
    IN  IF entries = << >> THEN [f \in FaceIdx(num_faces) |-> 0]
        ELSE LET direct == LabelAll(sorted_entries(entries), entries, num_faces).face_labels
                 mirrored == IF part_names # << >>
                             THEN apply_symmetric_heuristic(direct, mesh_face_centroids, entries,
                                                            part_names, num_faces, 1, {})
                             ELSE direct
             IN  fill_unlabeled(mirrored, mesh_face_centroids, num_faces)

FusionInit ==
    /\ scenario = "fusion"
    /\ ServiceAtRest
    /\ \E views \in ViewLists, num_faces \in 1..MaxFaces, part_names \in {<< >>, PART_NAMES} :
         \E mesh_face_centroids \in [1..num_faces -> Coords] :
            call = [fn |-> "map_masks_to_faces", views |-> views,
                    mesh_face_centroids |-> mesh_face_centroids,
                    part_names |-> part_names, face_labels |-> << >>, done |-> FALSE]

\* face_labels = map_masks_to_faces(views, face_centroids, part_names)
MapMasksToFaces ==
    /\ ~call.done
    /\ call' = [call EXCEPT !.face_labels = map_masks_to_faces(call.views,
                                  call.mesh_face_centroids, call.part_names),
                            !.done = TRUE]
    /\ UNCHANGED <<now, models, memory, lru, byUse, gets, hist, storage, bucket, obj, stats, genWindow, reqTotal, scenario, wiring, rq, wk>>

FusionNext == MapMasksToFaces

FusionSpec == FusionInit /\ [][FusionNext]_vars

\* ------------------------------------------------------------ primary sampling
\* _generate_sync, from the part meshes returned by partcrafter.generate to
\* the return of the primary result (pipeline.py:233-274).  A part mesh is
\* its number of vertices; a placeholder has one.
MaxParts == 4
\* template.part_names: one name for each part of the template
TemplatePartNames == [i \in 1..MaxParts |-> <<"part", i>>]
VertexCounts == {1, 3, 4}
\* partcrafter.generate(reference_image, num_parts=n) returns n meshes
PartMeshLists(n) == [1..n -> VertexCounts]

\* [m for m in part_meshes if len(m.vertices) > 1], as the positions kept
RECURSIVE valid_positions(_, _)
valid_positions(part_meshes, i) ==
    IF i > Len(part_meshes) THEN << >>
    ELSE IF part_meshes[i] > 1 THEN <<i>> \o valid_positions(part_meshes, i + 1)
         ELSE valid_positions(part_meshes, i + 1)

valid_meshes_of(part_meshes) ==
    [k \in 1..Len(valid_positions(part_meshes, 1)) |->
        part_meshes[valid_positions(part_meshes, 1)[k]]]

\* sample_from_part_meshes(meshes): each point carries the index its mesh
\* has in the list it was given; the ids in use are 0..len(meshes)-1.
sample_from_part_meshes(meshes) == {k - 1 : k \in 1..Len(meshes)}

\* template.part_names[: len(valid_meshes)]
truncate_part_names(part_names, n) == SubSeq(part_names, 1, IF n < Len(part_names) THEN n ELSE Len(part_names))

PrimaryInit ==
    /\ scenario = "primary"
    /\ ServiceAtRest
    /\ \E n \in 1..MaxParts :
      \E part_meshes \in PartMeshLists(n) :
         call = [fn |-> "sample_primary",
                 template_part_names |-> SubSeq(TemplatePartNames, 1, n),
                 part_meshes |-> part_meshes, part_ids |-> {},
                 part_names |-> << >>, pipeline_used |-> "sdxl_turbo+mock",
                 done |-> FALSE]

\* pipeline.py:247-274: filter, sample, truncate the names, return; with no
\* valid mesh the primary tier returns nothing and the code goes on.
SamplePrimary ==
    /\ ~call.done
    /\ LET valid_meshes == valid_meshes_of(call.part_meshes)
       IN  call' = IF valid_meshes = << >>
                   THEN [call EXCEPT !.done = TRUE]
                   ELSE [call EXCEPT !.part_ids = sample_from_part_meshes(valid_meshes),
                                     !.part_names = truncate_part_names(call.template_part_names,
                                                                        Len(valid_meshes)),
                                     !.pipeline_used = "partcrafter",
                                     !.done = TRUE]
    /\ UNCHANGED <<now, models, memory, lru, byUse, gets, hist, storage, bucket, obj, stats, genWindow, reqTotal, scenario, wiring, rq, wk>>

PrimaryNext == SamplePrimary

PrimarySpec == PrimaryInit /\ [][PrimaryNext]_vars

\* ------------------------------------------------------------ face-identity pass
\* _render_id_pass (mesh_renderer.py:163-232) for one view: every face is
\* drawn in the colour that encodes its index, and the rendered colours are
\* decoded into the face-id map.  A pixel is given by what the renderer
\* drew there: a face index, or -1 where it drew no face.
IdPixels == 2
FaceSamples == {0, 1, 255, 256, 65536}
Background == -1

\* _encode_face_id: (face_idx >> 16) & 0xFF, (face_idx >> 8) & 0xFF, face_idx & 0xFF
encode_face_id(face_idx) ==
    <<(face_idx \div 65536) % 256, (face_idx \div 256) % 256, face_idx % 256>>

\* _decode_face_id: (r << 16) | (g << 8) | b, on bytes
decode_face_id(r, g, b) == r * 65536 + g * 256 + b

\* The colour buffer at a pixel: face_colors[i] of the face drawn there, or
\* bg_color = [0, 0, 0, 0] (mesh_renderer.py:180-183, 191-194, 211-214).
rendered_colour(drawn) ==
    IF drawn = Background THEN <<0, 0, 0>> ELSE encode_face_id(drawn)

\* mesh_renderer.py:217-230: decoded > 0 is kept, then >= num_faces is cut.
face_id_of(colour, num_faces) ==
    LET decoded == decode_face_id(colour[1], colour[2], colour[3])
        kept == IF decoded > 0 THEN decoded ELSE -1
    IN  IF kept >= num_faces THEN -1 ELSE kept

IdPassInit ==
    /\ scenario = "id_pass"
    /\ ServiceAtRest
    /\ \E last \in FaceSamples :
         \E drawn \in [1..IdPixels -> {Background} \cup {i \in FaceSamples : i <= last}] :
            call = [fn |-> "render_id_pass", num_faces |-> last + 1, drawn |-> drawn,
                    face_id_map |-> << >>, done |-> FALSE]

\* face_id_map = _render_id_pass(mesh, config, resolution, pyrender)
RenderIdPass ==
    /\ ~call.done
    /\ call' = [call EXCEPT !.face_id_map =
                               [p \in 1..IdPixels |->
                                   face_id_of(rendered_colour(call.drawn[p]), call.num_faces)],
                            !.done = TRUE]
    /\ UNCHANGED <<now, models, memory, lru, byUse, gets, hist, storage, bucket, obj, stats, genWindow, reqTotal, scenario, wiring, rq, wk>>

IdPassNext == RenderIdPass

IdPassSpec == IdPassInit /\ [][IdPassNext]_vars

\* ------------------------------------------------------------ claims
\* Tiers whose points come from the procedural safety net.
IsMockTier(tier) == tier \in {"mock", "sdxl_turbo+mock"}

\* The worker's exception came from the image call / the part-mesh call.
ImageRaised(r) ==
    wk[r].stage = "finished" /\ wk[r].res \in Exc /\ wk[r].used = "mock"
PrimaryRaised(r) ==
    /\ wk[r].stage = "finished" /\ wk[r].res \in Exc
    /\ wk[r].used = "sdxl_turbo+mock" /\ wk[r].fb = "none"
\* generate ended with what the worker handed back (the wait did not time out).
Delivered(r) == rq[r].pc = "done" /\ rq[r].runs > 0 /\ ~rq[r].timedOut

\* C1: a request whose cache lookup returned an object has ended at once with
\* that object stamped cached=true: no rate check, no template lookup, no
\* worker (so no collaborator call), no cache write scheduled.
C1_CacheHitIsFree ==
    \A r \in Reqs :
        rq[r].got # NoObj =>
            /\ rq[r].pc = "done" /\ rq[r].outcome = "ok" /\ rq[r].hit
            /\ rq[r].resp.cached
            /\ rq[r].resp.tier # "none"
            /\ ~rq[r].checked /\ rq[r].retryAfter = 0
            /\ rq[r].templ = 0
            /\ ~rq[r].admitted /\ rq[r].runs = 0 /\ wk[r] = IdleWk
            /\ rq[r].wt = "none"

\* A hit served by the orchestrator that has the rate governor, while the
\* window is at the ceiling.
C1_Witness ==
    \E r \in Reqs :
        /\ rq[r].got # NoObj /\ rq[r].pc = "done" /\ HasMetrics
        /\ recent_generations_per_minute(now) >= generation_rate_limit_per_minute

\* C2: with V valid part meshes against E expected, the primary result is used
\* exactly when V >= max(E/2, 1); below it the request falls through.
C2_PrimaryIffThreshold ==
    \A r \in Reqs :
        wk[r].stage \notin {"none", "image", "primary"} /\ ~ImageRaised(r)
        /\ ~PrimaryRaised(r) /\ wk[r].used # "mock" =>
            (wk[r].used = "partcrafter"
                <=> ~InsufficientParts(wk[r].real_count, rq[r].templ))

\* C3: image synthesis succeeded and the part-mesh collaborator threw a
\* non-OOM exception: the response is a success of the mock tier carrying the
\* template's part names, not GenerationFailed.
C3_PrimaryThrowGivesMock ==
    \A r \in Reqs :
        Delivered(r) /\ PrimaryRaised(r) /\ wk[r].res = "err" =>
            /\ rq[r].outcome = "ok"
            /\ IsMockTier(rq[r].resp.tier)
            /\ rq[r].resp.names = rq[r].templ

\* C4: image synthesis not registered, or raising: the request returns a
\* mock-tier result; no error, no primary mesh synthesis, no fallback.
C4_ImageFailureGivesMock ==
    \A r \in Reqs :
        Delivered(r) /\ (ImageRaised(r) \/ (wk[r].used = "mock" /\ wk[r].res = "ok")) =>
            /\ rq[r].outcome = "ok"
            /\ IsMockTier(rq[r].resp.tier)
            /\ wk[r].fb = "none" /\ wk[r].real_count = 0

EndKinds == {"ok", "GenerationTimeout", "GPUOutOfMemory", "GenerationFailed"}

\* C6 as stated: every request that passed the rate check returns a result.
C6_AdmittedAlwaysSucceeds ==
    \A r \in Reqs : rq[r].admitted /\ rq[r].pc = "done" => rq[r].outcome = "ok"

\* C6 as amended: under fair scheduling every request that passed the rate
\* check ends, with a result or with GenerationTimeout, GPUOutOfMemory or
\* GenerationFailed; it never waits beyond the timeout; the safety net never
\* raises, and its point cloud, when delivered, is a successful response.
C6_AdmittedRequestEnds ==
    /\ \A r \in Reqs :
         rq[r].admitted ~> (rq[r].pc = "done" /\ rq[r].outcome \in EndKinds)
    /\ [](\A r \in Reqs :
            /\ Awaiting(r) => now - rq[r].t0 <= generation_timeout_seconds
            /\ wk[r].mock /\ wk[r].stage = "finished" => wk[r].res = "ok"
            /\ wk[r].mock /\ Delivered(r) => rq[r].outcome = "ok")

\* A dispatched request was answered with the safety net's point cloud.
C6_Witness ==
    \E r \in Reqs :
        /\ rq[r].admitted /\ wk[r].mock /\ Delivered(r)
        /\ rq[r].outcome = "ok" /\ IsMockTier(rq[r].resp.tier)

\* C7: once the timeout has ended the wait, the worker thread can still run
\* to its end, and nothing is made of its result: no response object, no
\* cache write in either tier, no request metric.
C7_LateResultDiscarded ==
    \A r \in Reqs :
        rq[r].timedOut =>
            /\ rq[r].pc = "done" /\ rq[r].outcome = "GenerationTimeout"
            /\ rq[r].resp = NoResp /\ obj[r] = NoResp
            /\ rq[r].wt = "none"
            /\ \A k \in Keys : memory[k] # r
            /\ rq[r].recorded = 0
            /\ wk[r].stage # "finished" => ENABLED WorkerStep(r)

\* The worker finished with a result after the caller got GenerationTimeout.
C7_Witness ==
    \E r \in Reqs :
        rq[r].timedOut /\ wk[r].stage = "finished" /\ wk[r].res = "ok"

\* C8: an out-of-memory error of a collaborator call, handed to generate by
\* the worker, ends the request as GPUOutOfMemory after exactly one reclaim
\* and one run of the worker; it is never GenerationFailed nor a success.
C8_OomSurfaces ==
    \A r \in Reqs :
        /\ rq[r].reclaims <= 1 /\ rq[r].runs <= 1
        /\ rq[r].reclaims = 1 => wk[r].res = "oom"
        /\ wk[r].stage = "finished" /\ wk[r].res = "oom" =>
             /\ rq[r].outcome \notin {"GenerationFailed", "ok"}
             /\ Delivered(r) =>
                  /\ rq[r].outcome = "GPUOutOfMemory"
                  /\ rq[r].reclaims = 1 /\ rq[r].runs = 1
                  /\ rq[r].resp = NoResp /\ rq[r].wt = "none"

\* An OOM raised inside the fallback reached the caller.
C8_Witness ==
    \E r \in Reqs :
        /\ wk[r].fb = "oom" /\ Delivered(r)
        /\ rq[r].outcome = "GPUOutOfMemory" /\ rq[r].reclaims = 1

\* Requests dispatched to generation with an admission time inside the
\* window that ends at t.
AdmittedIn(t) == {q \in Reqs : rq[q].admitted /\ rq[q].t0 > t - WindowTicks /\ rq[q].t0 <= t}

\* C9: with N = ceiling requests admitted inside the current window, the next
\* cache-miss request is not admitted; a rejection carries retry-after > 0.
C9_NextRequestRejected ==
    [][\A r \in Reqs :
         /\ (~rq[r].admitted /\ rq'[r].admitted) =>
               Cardinality(AdmittedIn(now)) < generation_rate_limit_per_minute
         /\ rq'[r].outcome = "RateLimited" => rq'[r].retryAfter > 0]_vars

\* C10: with the rate governor in place, the requests admitted inside any one
\* window never outnumber the ceiling.
C10_WindowNeverExceedsCeiling ==
    HasMetrics =>
        \A t \in 0..MaxTime :
            Cardinality(AdmittedIn(t)) <= generation_rate_limit_per_minute

\* C11: every request dispatched to generation has put one timestamp into the
\* rate window by the time it is dispatched, and the timestamp stays whatever
\* the request's outcome; cache hits put none.
C11_AdmissionAddsTimestamp ==
    HasMetrics =>
        Len(genWindow) = Cardinality({r \in Reqs : rq[r].admitted})

\* Request r1 got its response from a generation (it missed the cache).
ReturnedGenerated(r1) ==
    rq[r1].pc = "done" /\ rq[r1].outcome = "ok" /\ ~rq[r1].hit

\* C12: a request issued after a request with the same normalized key got its
\* generated response is not dispatched to generation: it is served from the
\* cache, whether or not the write task has run.
C12_SecondRequestServedFromCache ==
    [][\A r1, r2 \in Reqs :
         /\ ReturnedGenerated(r1)
         /\ rq[r2].pc = "idle" /\ rq'[r2].pc # "idle"
         /\ normalize_key(rq'[r2].text) = normalize_key(rq[r1].text)
         => ~rq'[r2].admitted]_vars

\* C13: the response object a request was given reads cached=false if the
\* request missed the cache and cached=true if it hit, and goes on reading so
\* while later requests are served.
C13_CachedFlagTellsHitFromMiss ==
    \A r \in Reqs :
        rq[r].pc = "done" /\ rq[r].outcome = "ok" =>
            IF rq[r].hit
            THEN rq[r].resp.cached /\ obj[rq[r].got].cached
            ELSE ~rq[r].resp.cached /\ ~obj[r].cached

\* C14: the entries of the fast tier and of the durable tier keep the cached
\* flag they were stored with (false), however many hits were served.
C14_StoredEntryNotStamped ==
    \A k \in DOMAIN memory :
        /\ memory[k] # NoObj => ~obj[memory[k]].cached
        /\ storage[k] # NoResp => ~storage[k].cached

\* C15: once generate has scheduled the cache write it has returned its
\* response, and no step of the write, failing or not, changes the request's
\* outcome or response.
C15_WriteFailureHarmless ==
    [][\A r \in Reqs :
         rq'[r].wt # "none" =>
            /\ rq'[r].pc = "done" /\ rq'[r].outcome = "ok"
            /\ rq[r].wt # "none" => rq'[r].resp = rq[r].resp]_vars

\* A cache write failed after the response was returned.
C15_Witness ==
    \E r \in Reqs :
        rq[r].wt = "failed" /\ rq[r].pc = "done" /\ rq[r].outcome = "ok"

\* The step completes a ShapeCache.get call of caller r.
GetCompletes(r) == gets' = gets + 1 /\ rq'[r] # rq[r]

C17_OneCounterPerGet ==
    [][/\ gets' = gets => stats' = stats
       /\ gets' # gets =>
            /\ gets' = gets + 1
            /\ \E c \in {"memory_hits", "storage_hits", "misses"} :
                 stats' = [stats EXCEPT ![c] = @ + 1]
       /\ stats'.memory_hits + stats'.storage_hits + stats'.misses = gets']_vars

\* Three lookups, one of each kind, with a write and a clear among them.
C17_Witness ==
    /\ gets = 3
    /\ stats.memory_hits = 1 /\ stats.storage_hits = 1 /\ stats.misses = 1
    /\ hist.cleared /\ \E r \in Writers : rq[r].wt = "done"

\* C18: the fast tier never holds more than memory_capacity entries, whatever
\* sets, promotions and clears were made.
C18_FastTierBounded ==
    /\ Cardinality(Present(memory)) <= memory_capacity
    /\ Len(lru) = Cardinality(Present(memory))

\* The fast tier is full after an eviction, holding a written entry and a
\* promoted one.
C18_Witness ==
    /\ hist.victim # NoKey
    /\ Cardinality(Present(memory)) = memory_capacity
    /\ \E k1, k2 \in DOMAIN memory : memory[k1] \in Writers /\ memory[k2] > NReq

\* C19: when a write of a new key drops a key from a full fast tier, the key
\* dropped is the one whose last use (get hit, set or promotion) is oldest; it
\* is never the key used last.
C19_EvictsLeastRecentlyUsed ==
    [][\A v \in DOMAIN memory :
         memory[v] # NoObj /\ memory'[v] = NoObj /\ Present(memory') # {} =>
            /\ Cardinality(Present(memory)) = memory_capacity
            /\ \E k \in DOMAIN memory : memory[k] = NoObj /\ memory'[k] # NoObj
            /\ v = Head(byUse)
            /\ Len(byUse) > 1 => v # byUse[Len(byUse)]]_vars

\* An eviction happened after a get had hit a key that is still held.
C19_Witness ==
    /\ hist.victim # NoKey /\ ~hist.cleared
    /\ stats.memory_hits = 1 /\ gets = 1
    /\ \E r \in Readers :
         /\ rq[r].outcome = "memory_hit"
         /\ memory[normalize_key(rq[r].text)] = rq[r].got
         /\ normalize_key(rq[r].text) = Head(lru)

C21_DurableFailureDegrades ==
    [][\A r \in Reqs :
        /\ (rq[r].pc = "storage_read" /\ rq'[r].pc = "idle") =>
             LET key == normalize_key(rq[r].text)
             IN  \/ /\ rq'[r].outcome = "storage_hit"
                    /\ storage[key] # NoResp
                    /\ obj'[rq'[r].got] = storage[key]
                 \/ /\ rq'[r].outcome = "miss"
                    /\ rq'[r].got = NoObj
                    /\ stats'.misses = stats.misses + 1
                    /\ memory' = memory
        /\ (rq'[r] # rq[r] /\ gets' = gets /\ rq[r].wt # "uploading"
              /\ rq[r].pc = "idle" /\ rq'[r].pc = "idle") =>
             /\ memory'[normalize_key(rq'[r].text)] = r
             /\ rq'[r].wt = IF bucket THEN "uploading" ELSE "done"
        /\ (rq[r].wt = "uploading" /\ rq'[r].wt = "failed") =>
             /\ memory' = memory /\ storage' = storage
             /\ rq'[r].outcome = rq[r].outcome /\ rq'[r].pc = rq[r].pc
        /\ ~bucket => /\ rq'[r].pc # "storage_read"
                      /\ rq'[r].wt \notin {"uploading", "failed"}
                      /\ rq'[r].outcome \in {"none", "memory_hit", "miss"}
                      /\ storage' = storage]_vars

\* A lookup missed although the durable tier holds the key (its read failed),
\* and a set whose upload failed left its object in the fast tier.
C21_Witness ==
    /\ bucket /\ gets = 1 /\ stats.misses = 1
    /\ rq[1].outcome = "miss"
    /\ storage[normalize_key(rq[1].text)] # NoResp
    /\ \E w \in Writers :
         /\ rq[w].wt = "failed"
         /\ normalize_key(rq[w].text) # normalize_key(rq[1].text)
         /\ memory[normalize_key(rq[w].text)] = w

\* C22: get_or_load runs the factory of a model name at most once between
\* unloads, also when worker threads of different requests call it at the
\* same time.
C22_FactoryRunsOnce ==
    \A name \in FALLBACK_MODELS : hist.loads[name] <= 1

\* C23: ModelRegistry.get of a name that is not loaded fails with the
\* ModelNotLoaded error kind and leaves the loaded set as it was.
C23_AbsentGetIsModelNotLoaded ==
    [][\A r \in Reqs :
        (wk'[r] # wk[r] /\ wk'[r].stage = "returned" /\ wk[r].stage # "factory"
           /\ wk'[r].used \notin models)
        => (wk'[r].res = "ModelNotLoadedError" /\ models' = models)]_vars

C25_TimerCheckedAfterEveryStep ==
    [][\A r \in Reqs :
        (wk[r].stage = "fb_segment" /\ FallbackTimedOut(now - wk[r].fbT0))
        => wk'[r].fb # "ok"]_vars

\* C26: nothing holds a request back because another request for the same
\* key is in flight.  While one request that missed is waiting for its
\* worker, a second request that misses on the same key is dispatched to a
\* worker of its own; every request that gets its worker's result schedules
\* its own cache write; and a write replaces whatever the key holds.
C26_NoPerKeyExclusion ==
    [][\A r1, r2 \in Reqs :
        /\ (r1 # r2 /\ rq[r1].pc = "waiting" /\ rq[r1].got = NoObj
              /\ rq[r2].pc \in {"idle", "storage_read"}
              /\ rq'[r2].pc \notin {"idle", "storage_read"}
              /\ normalize_key(rq'[r2].text) = normalize_key(rq[r1].text)
              /\ rq'[r2].got = NoObj /\ rq'[r2].outcome # "RateLimited")
           => (rq'[r2].pc = "waiting" /\ rq'[r2].runs = 1 /\ wk'[r2].stage = "image")
        /\ (rq[r1].pc = "waiting" /\ rq'[r1].outcome = "ok")
           => rq'[r1].wt = "scheduled"
        /\ (rq[r1].wt = "scheduled" /\ rq'[r1].wt # "scheduled")
           => memory'[normalize_key(rq[r1].text)] = r1]_vars

\* The stampede: two requests for one key have both missed, both are waiting
\* and both workers have run their generation to its end.
C26_Witness ==
    \E r1, r2 \in Reqs :
        /\ r1 # r2
        /\ normalize_key(rq[r1].text) = normalize_key(rq[r2].text)
        /\ \A r \in {r1, r2} :
             /\ rq[r].pc = "waiting" /\ rq[r].got = NoObj /\ rq[r].runs = 1
             /\ wk[r].stage = "finished" /\ wk[r].res = "ok"

\* C27: normalize_key is idempotent: normalising a normalised key gives the
\* key back, for every text, those made of articles, punctuation and
\* whitespace only included.
C27_NormalizeIdempotent ==
    call.step = 2 => call.again = call.key

\* C28: when removing punctuation and articles leaves no word, the key is the
\* lowercased raw text, punctuation included (surrounding whitespace apart);
\* so a key is empty only if the lowercased raw text is.
C28_FallbackIsLoweredRawText ==
    LET text == sub_punctuation(strip(lower(call.text)))
        NotArticle(w) == w \notin ArticleSpellings
    IN  (call.step >= 1 /\ SelectSeq(split(text), NotArticle) = << >>)
        => /\ call.key \in {lower(call.text), strip(lower(call.text))}
           /\ call.key = << >> => strip(lower(call.text)) = << >>

\* The masks of the call, in the order supplied, that cover face f.
Covering(f) ==
    LET entries == all_mask_entries(call.views)
    IN  {i \in 1..Len(entries) : f \in entries[i].face_ids}

\* C29: a face covered by two masks of different pixel areas, in one view or
\* in two, carries the part of the smaller mask after fusion, in whatever
\* order the views and the masks of a view are supplied.
C29_SmallerMaskWins ==
    call.done =>
        LET entries == all_mask_entries(call.views)
        IN  \A f \in FaceIdx(Len(call.mesh_face_centroids)) :
              \A i, j \in Covering(f) :
                 (Covering(f) = {i, j} /\ entries[i].area < entries[j].area)
                 => call.face_labels[f] = part_to_idx(entries, entries[i].part_name)

\* Two views: the larger mask, of one part, is supplied first, the smaller
\* mask of the other part second, both over face 0, which carries the
\* smaller mask's part.
C29_Witness ==
    /\ call.done /\ Len(call.views) = 2
    /\ LET entries == all_mask_entries(call.views)
       IN  /\ Len(entries) = 2 /\ Covering(0) = {1, 2}
           /\ entries[1].area > entries[2].area
           /\ entries[1].part_name # entries[2].part_name
           /\ call.face_labels[0] = part_to_idx(entries, entries[2].part_name)

\* C30: the array returned has one entry per face and none of them is -1,
\* whatever the masks cover.
C30_NoFaceUnassigned ==
    call.done =>
        /\ DOMAIN call.face_labels = FaceIdx(Len(call.mesh_face_centroids))
        /\ \A f \in DOMAIN call.face_labels : call.face_labels[f] >= 0

\* Masks that reach face 0 only, next to a view whose pixels are background
\* and an identity beyond the mesh: face 1 was filled in.
C30_Witness ==
    /\ call.done /\ Len(call.mesh_face_centroids) = 2
    /\ Covering(0) # {} /\ Covering(1) = {}
    /\ \E v \in 1..Len(call.views) :
         /\ call.views[v].masks_dict # << >>
         /\ {call.views[v].face_id_map[p] : p \in Pixels} = {-1, MaxFaces}
    /\ call.part_names = << >>
    /\ call.face_labels[1] = call.face_labels[0] /\ call.face_labels[0] >= 0

\* The faces whose label stands for the part called name.
LabeledAs(face_labels, entries, name) ==
    IF InPartToIdx(entries, name)
    THEN {f \in DOMAIN face_labels : face_labels[f] = part_to_idx(entries, name)}
    ELSE {}

\* C31: for a left/right pair of the part names of which one part has no face
\* after the masks were assigned and the other has some, the fused labels
\* give the empty part at least one face, and each of its faces lies within
\* the clone distance 0.3 of the X-mirrored centroid of a face of the other.
C31_SymmetricCompletion ==
    (call.done /\ call.part_names # << >>) =>
        LET entries == all_mask_entries(call.views)
            centroids == call.mesh_face_centroids
            num_faces == Len(centroids)
            direct == IF entries = << >> THEN [f \in FaceIdx(num_faces) |-> 0]
                      ELSE LabelAll(sorted_entries(entries), entries, num_faces).face_labels
        IN  \A i, j \in 1..Len(call.part_names) :
              LET source == call.part_names[i]
                  target == call.part_names[j]
              IN  (/\ find_symmetric_pair(source, call.part_names) = target
                   /\ LabeledAs(direct, entries, source) # {}
                   /\ LabeledAs(direct, entries, target) = {})
                  => /\ LabeledAs(call.face_labels, entries, target) # {}
                     /\ \A f \in LabeledAs(call.face_labels, entries, target) :
                          \E g \in LabeledAs(direct, entries, source) :
                             10 * Dist(centroids[f + 1], -centroids[g + 1]) < 3

\* C32: a generate request that ended with a response, from the cache or
\* from a generation, has updated the request metrics exactly once, and a
\* request that ended in an error has updated them not at all; so the
\* metrics total equals the number of requests that ended with a response.
C32_SuccessRecordedOnce ==
    /\ \A r \in Reqs :
          rq[r].pc = "done" =>
             rq[r].recorded = IF rq[r].outcome = "ok" THEN 1 ELSE 0
    /\ reqTotal = Cardinality({r \in Reqs : rq[r].pc = "done" /\ rq[r].outcome = "ok"})

\* C33: a face that the masks gave to the part called p carries, in the
\* returned labels, the position of p in the part-name list returned with
\* the result (counted from 0), whatever the order and the subset of the
\* parts among the masks.
C33_LabelIsTemplatePosition ==
    (call.done /\ call.part_names # << >> /\ all_mask_entries(call.views) # << >>) =>
        LET entries == all_mask_entries(call.views)
            direct == LabelAll(sorted_entries(entries), entries,
                               Len(call.mesh_face_centroids)).face_labels
        IN  \A i \in 1..Len(call.part_names) :
               \A f \in LabeledAs(direct, entries, call.part_names[i]) :
                  call.face_labels[f] = i - 1

\* C34: in a primary result, the name returned for part id k is the template
\* part name of the position that the k-th sampled mesh had in the output of
\* the part-mesh collaborator, placeholders before it notwithstanding.
C34_NameFollowsMeshPosition ==
    (call.done /\ call.pipeline_used = "partcrafter") =>
        \A k \in call.part_ids :
           LET position == valid_positions(call.part_meshes, 1)[k + 1]
           IN  /\ k + 1 <= Len(call.part_names)
               /\ position <= Len(call.template_part_names)
               /\ call.part_names[k + 1] = call.template_part_names[position]

\* C35: a request ends in GenerationTimeout only when the wait for the worker
\* ran out of its budget before the worker had finished; an exception the
\* worker got from a collaborator inside the budget, a built-in TimeoutError
\* included, is never reported as GenerationTimeout.
C35_TimeoutOnlyWhenBudgetElapsed ==
    \A r \in Reqs :
        rq[r].outcome = "GenerationTimeout" =>
            /\ rq[r].timedOut
            /\ now - rq[r].t0 >= generation_timeout_seconds

\* C36: the object held by the durable tier under any key has cached = false,
\* whatever the interleaving of the write task (fast-tier write, then the
\* serialization in an executor thread) with a cache hit for the same key.
C36_DurableCopyNotCached ==
    \A k \in Keys : ~storage[k].cached

\* C37: a get that started its durable-tier read before a set of the same
\* key and finishes after it leaves the fast tier's entry for that key as the
\* set wrote it: the promotion does not put the older durable value in its
\* place.
C37_PromoteKeepsNewerSet ==
    [][\A r \in Reqs :
         LET key == normalize_key(rq[r].text)
         IN  (/\ rq[r].pc = "storage_read" /\ rq'[r].pc = "idle"
              /\ memory[key] \in Writers)
             => memory'[key] = memory[key]]_vars

\* A safety-net result that was returned has its write task scheduled, and
\* once the task has run the fast tier holds an entry under the text's key.
MockWrittenThrough ==
    \A r \in Reqs :
        (/\ rq[r].pc = "done" /\ rq[r].outcome = "ok" /\ ~rq[r].hit
         /\ IsMockTier(rq[r].resp.tier))
        => /\ rq[r].wt # "none"
           /\ rq[r].wt # "scheduled" => memory[normalize_key(rq[r].text)] # NoObj

\* In this step request r ends as a cache hit that returns a result of the
\* given tier, with no rate check, no dispatch and no worker.
ServedFromCache(r, tier) ==
    /\ rq'[r].pc = "done" /\ rq'[r].outcome = "ok" /\ rq'[r].hit
    /\ rq'[r].resp.cached /\ rq'[r].resp.tier = tier
    /\ ~rq'[r].admitted /\ rq'[r].runs = 0 /\ wk'[r] = IdleWk

\* Request r starts while the fast tier holds a safety-net result for its text.
FastTierMockServed(r) ==
    LET key == normalize_key(rq'[r].text)
    IN  (/\ rq[r].pc = "idle" /\ rq'[r].pc # "idle"
         /\ memory[key] # NoObj /\ IsMockTier(obj[memory[key]].tier))
        => ServedFromCache(r, obj[memory[key]].tier)

\* C38 as stated: a safety-net result is written through, and every later
\* request for its text is a cache hit that returns it with no generation
\* attempt, the collaborators being available or not, for as long as the
\* entry stays in the fast tier or in the durable tier.
C38_MockEntryAlwaysHit ==
    /\ []MockWrittenThrough
    /\ [][\A r \in Reqs :
            /\ FastTierMockServed(r)
            /\ (/\ rq[r].pc = "storage_read" /\ rq'[r].pc # "storage_read"
                /\ IsMockTier(storage[normalize_key(rq[r].text)].tier))
               => ServedFromCache(r, storage[normalize_key(rq[r].text)].tier)]_vars

\* C38, amended: the same, with the entry in the fast tier, or in the durable
\* tier when the durable read returns it (a storage hit is counted).
C38_MockEntryHitWhenRead ==
    /\ []MockWrittenThrough
    /\ [][\A r \in Reqs :
            /\ FastTierMockServed(r)
            /\ (/\ rq[r].pc = "storage_read" /\ rq'[r].pc # "storage_read"
                /\ IsMockTier(storage[normalize_key(rq[r].text)].tier)
                /\ stats'.storage_hits = stats.storage_hits + 1)
               => ServedFromCache(r, storage[normalize_key(rq[r].text)].tier)]_vars

\* A request was answered from the cache with the safety-net result of an
\* earlier request while both primary collaborators were registered.
C38_Witness ==
    \E r1, r2 \in Reqs :
        /\ r1 # r2
        /\ rq[r1].pc = "done" /\ rq[r1].outcome = "ok" /\ ~rq[r1].hit
        /\ IsMockTier(rq[r1].resp.tier)
        /\ rq[r2].pc = "done" /\ rq[r2].hit /\ rq[r2].got = r1
        /\ IsMockTier(rq[r2].resp.tier)
        /\ normalize_key(rq[r1].text) = normalize_key(rq[r2].text)
        /\ PRIMARY_MODELS \subseteq models

\* C39: in the face-identity pass a pixel drawn in the colour of face i, for
\* 0 <= i < number of faces, decodes back to i, and its entry of the face-id
\* map is i, not the background value -1, face 0 included; every other entry
\* of the map is -1.
C39_FaceIdRoundTrip ==
    call.done =>
        \A p \in 1..IdPixels :
           LET i == call.drawn[p]
               colour == encode_face_id(i)
           IN  IF i = Background THEN call.face_id_map[p] = -1
               ELSE /\ decode_face_id(colour[1], colour[2], colour[3]) = i
                    /\ call.face_id_map[p] = i

====
